---------------------------- MODULE Spec2Model ----------------------------
(***************************************************************************)
(* A model of models/prospect/prospectall.py: the PROSPECT leaf optical    *)
(* properties model (calctav, refl_trans_one_layer, prospectdcore and the  *)
(* dispatcher run_prospect).                                               *)
(*                                                                         *)
(* Numbers.  The program computes in IEEE doubles; here a number is a      *)
(* fixed-point integer, the real value times SCALE, rounded to the nearest *)
(* unit after every operation (as a double is rounded to the nearest       *)
(* representable value).  A result that has no finite value (a division by *)
(* zero, the square root or logarithm of a negative number, an overflow)   *)
(* is the single value NaN, which every later operation propagates, as     *)
(* numpy propagates inf and nan instead of raising.  The library functions *)
(* np.sqrt, np.log, np.exp, np.sin and scipy's expi are computed by        *)
(* truncated series.                                                       *)
(*                                                                         *)
(* Arrays.  A numpy array is a sequence of numbers.  Arrays are objects:   *)
(* the heap maps a reference (a string) to the array it holds, so that an  *)
(* in-place write (tau[j] = ..., Tsub[j] = ..., Rsub[j] = ...) changes the *)
(* object every holder of the reference sees.  The wavelength grid         *)
(* np.arange(400, 2501) is scaled down to GridLen points starting at 400.  *)
(***************************************************************************)
EXTENDS Integers, Sequences, FiniteSets, TLC

\* The number of points of the wavelength grid (2101 in the program).
GridLen == 3

(***************************************************************************)
(* Fixed-point arithmetic                                                  *)
(***************************************************************************)
Base == 10 * 10
SCALE == Base * Base
\* Magnitudes beyond MaxMag are not finite (a double overflows to inf).
MaxMag == SCALE * SCALE
NaN == 0 - 10 * MaxMag

\* The fixed-point number of the integer n.
K(n) == n * SCALE

Abs(x) == IF x < 0 THEN 0 - x ELSE x

Sign(x, y) == IF (x < 0) = (y < 0) THEN 1 ELSE 0 - 1

Norm(x) == IF x > MaxMag \/ x < 0 - MaxMag THEN NaN ELSE x

Add(x, y) == IF x = NaN \/ y = NaN THEN NaN ELSE Norm(x + y)

Sub(x, y) == IF x = NaN \/ y = NaN THEN NaN ELSE Norm(x - y)

Neg(x) == IF x = NaN THEN NaN ELSE 0 - x

Mul(x, y) ==
    IF x = NaN \/ y = NaN THEN NaN
    ELSE LET xh == Abs(x) \div SCALE
             xl == Abs(x) % SCALE
             yh == Abs(y) \div SCALE
             yl == Abs(y) % SCALE
         IN  IF xh * yh >= SCALE THEN NaN
             ELSE Norm(Sign(x, y) * (xh * yh * SCALE + xh * yl + xl * yh
                                     + (xl * yl + SCALE \div 2) \div SCALE))

\* x / y for 0 <= x, 0 < y: long division, two digits of base Base.
DivPos(x, y) ==
    LET q  == x \div y
        r  == x % y
        q1 == (r * Base) \div y
        r1 == (r * Base) % y
        q2 == (r1 * Base) \div y
        r2 == (r1 * Base) % y
    IN  IF q >= SCALE THEN NaN
        ELSE q * SCALE + q1 * Base + q2 + (IF 2 * r2 >= y THEN 1 ELSE 0)

Div(x, y) ==
    IF x = NaN \/ y = NaN \/ y = 0 THEN NaN
    ELSE LET big == Abs(y) > MaxMag \div 10
             ax  == IF big THEN Abs(x) \div Base ELSE Abs(x)
             ay  == IF big THEN Abs(y) \div Base ELSE Abs(y)
             q   == DivPos(ax, ay)
         IN  IF q = NaN THEN NaN ELSE Norm(Sign(x, y) * q)

\* The largest m in lo..hi with m * m <= n (lo * lo <= n).
RECURSIVE ISqrtIter(_, _, _)
ISqrtIter(n, lo, hi) ==
    IF lo >= hi THEN lo
    ELSE LET m == (lo + hi + 1) \div 2
         IN  IF m * m <= n THEN ISqrtIter(n, m, hi) ELSE ISqrtIter(n, lo, m - 1)

\* np.sqrt
Sqrt(x) ==
    IF x = NaN \/ x < 0 THEN NaN
    ELSE IF x <= 20 * SCALE THEN ISqrtIter(x * SCALE, 0, 4 * SCALE + SCALE \div 2)
    ELSE ISqrtIter(x, 0, SCALE) * Base

\* The sum of the first terms of z + z^3/3 + z^5/5 + ... (term = z^(2i+1)).
RECURSIVE AtanhSeries(_, _, _, _)
AtanhSeries(term, z2, i, n) ==
    IF i >= n THEN 0
    ELSE Add(Div(term, K(2 * i + 1)), AtanhSeries(Mul(term, z2), z2, i + 1, n))

Ln2 == (SCALE * 6931) \div 10000

\* np.log of x in [1/2, 2]: 2 atanh((x-1)/(x+1)).
LnNear1(x) ==
    LET z == Div(x - SCALE, x + SCALE)
    IN  Mul(K(2), AtanhSeries(z, Mul(z, z), 0, 6))

\* np.log: the argument is halved or doubled into [1/2, 2].
RECURSIVE Ln(_)
Ln(x) ==
    IF x = NaN \/ x <= 0 THEN NaN
    ELSE IF x > 2 * SCALE THEN Add(Ln(Div(x, K(2))), Ln2)
    ELSE IF 2 * x < SCALE THEN Sub(Ln(Mul(x, K(2))), Ln2)
    ELSE LnNear1(x)

\* The sum of the terms x^i/i!, i = from..n, given term = x^(from-1)/(from-1)!.
RECURSIVE ExpSeries(_, _, _, _)
ExpSeries(term, x, i, n) ==
    IF i > n THEN 0
    ELSE LET next == Div(Mul(term, x), K(i))
         IN  Add(next, ExpSeries(next, x, i + 1, n))

\* np.exp: exp(x) = exp(x/2)^2 until |x| <= 1/2.
RECURSIVE Exp(_)
Exp(x) ==
    IF x = NaN THEN NaN
    ELSE IF x < 0 - 12 * SCALE THEN 0
    ELSE IF x > 12 * SCALE THEN NaN
    ELSE IF 2 * Abs(x) > SCALE THEN LET h == Exp(Div(x, K(2))) IN Mul(h, h)
    ELSE Add(SCALE, ExpSeries(SCALE, x, 1, 8))

\* The sum of the terms (-1)^i x^(2i+1)/(2i+1)!, i = from.., given the term before.
RECURSIVE SinSeries(_, _, _, _)
SinSeries(term, x2, i, n) ==
    IF i > n THEN 0
    ELSE LET next == Div(Mul(Neg(term), x2), K((2 * i) * (2 * i + 1)))
         IN  Add(next, SinSeries(next, x2, i + 1, n))

\* np.sin, for an angle in radians
Sin(x) == IF x = NaN THEN NaN ELSE Add(x, SinSeries(x, Mul(x, x), 1, 6))

Pi == (SCALE * 31416) \div 10000

\* np.deg2rad
Deg2Rad(alpha) == Div(Mul(alpha, Pi), K(180))

EulerGamma == (SCALE * 5772) \div 10000

\* The sum of the terms (-k)^i/(i i!), i = from..n, given term = (-k)^(i-1)/(i-1)!.
RECURSIVE E1Series(_, _, _, _)
E1Series(term, k, i, n) ==
    IF i > n THEN 0
    ELSE LET next == Div(Mul(term, Neg(k)), K(i))
         IN  Add(Div(next, K(i)), E1Series(next, k, i + 1, n))

\* scipy.special.expi at a negative argument x = -k:
\* Ei(-k) = gamma + ln k + sum (-k)^i/(i i!); exp(-k)/(-k) for large k.
Expi(x) ==
    IF x = NaN \/ x >= 0 THEN NaN
    ELSE LET k == 0 - x
         IN  IF k <= 3 * SCALE
             THEN Add(Add(EulerGamma, Ln(k)), E1Series(SCALE, k, 1, 16))
             ELSE Neg(Div(Exp(x), k))

\* The product of n factors b.
RECURSIVE IntPower(_, _)
IntPower(b, n) == IF n <= 0 THEN SCALE ELSE Mul(b, IntPower(b, n - 1))

\* np.power(b, e) for e >= 0: the integer part of e by repeated multiplication,
\* the fractional part as exp(f ln b); a zero exponent gives 1 whatever b is.
Power(b, e) ==
    IF e = NaN THEN NaN
    ELSE IF e = 0 THEN SCALE
    ELSE IF e < 0 THEN NaN
    ELSE LET n == e \div SCALE
             f == e % SCALE
         IN  IF f = 0 THEN IntPower(b, n)
             ELSE Mul(IntPower(b, n), Exp(Mul(f, Ln(b))))

(***************************************************************************)
(* Arrays                                                                  *)
(***************************************************************************)
\* Variant of np.arange that counts from 0 instead of from its first argument
ArangeFromZero(lo, hi) == [i \in 1..(hi - lo) |-> i - 1]

\* np.arange(lo, hi)
Arange(lo, hi) == [i \in 1..(hi - lo) |-> lo + i - 1]

\* np.ones_like, np.zeros_like: a new array of the shape of a
OnesLike(a) == [i \in DOMAIN a |-> SCALE]

ZerosLike(a) == [i \in DOMAIN a |-> 0]

\* Variant of the masked assignment that assigns every element as soon as
\* the mask is true anywhere
MaskedAssignWhole(target, j, source) ==
    IF \E i \in DOMAIN target : j[i] THEN source ELSE target

\* target[j] = source[j] for a boolean mask j: the selected elements only
MaskedAssign(target, j, source) ==
    [i \in DOMAIN target |-> IF j[i] THEN source[i] ELSE target[i]]

(***************************************************************************)
(* calctav: transmissivity of a dielectric interface (Stern 1964, Allen    *)
(* 1973), for one element of the refractive-index array.                   *)
(***************************************************************************)
Alpha90 == 90

Square(x) == Mul(x, x)

\* ts, tp1 .. tp5 and tav, from n2, npx, nm*nm, a, b, k and sa*sa
calctav_tav(n2, npx, nm2, a, b, k, sa2) ==
    LET b3   == Mul(Square(b), b)
        a3   == Mul(Square(a), a)
        k2   == Square(k)
        ts   == Sub(Sub(Add(Div(k2, Mul(K(6), b3)), Div(k, b)), Div(b, K(2))),
                    Sub(Add(Div(k2, Mul(K(6), a3)), Div(k, a)), Div(a, K(2))))
        npx2 == Square(npx)
        npx3 == Mul(npx2, npx)
        n22  == Square(n2)
        u    == Sub(Mul(Mul(K(2), npx), b), nm2)
        v    == Sub(Mul(Mul(K(2), npx), a), nm2)
        tp1  == Div(Mul(Mul(K(0 - 2), n2), Sub(b, a)), npx2)
        tp2  == Div(Mul(Mul(Mul(K(0 - 2), n2), npx), Ln(Div(b, a))), nm2)
        tp3  == Div(Mul(n2, Sub(Div(SCALE, b), Div(SCALE, a))), K(2))
        tp4  == Div(Mul(Mul(Mul(K(16), n22), Add(n22, SCALE)), Ln(Div(u, v))),
                    Mul(npx3, nm2))
        tp5  == Div(Mul(Mul(K(16), Mul(n22, n2)),
                        Sub(Div(SCALE, u), Div(SCALE, v))), npx3)
        tp   == Add(Add(Add(Add(tp1, tp2), tp3), tp4), tp5)
    IN  Div(Add(ts, tp), Mul(K(2), sa2))

\* b1, b2 and b, from b2 = sa*sa - npx/2
calctav_b(alpha, n2, a, k, sa2, b2) ==
    calctav_tav(n2, Add(n2, SCALE), Square(Sub(n2, SCALE)), a,
                Sub(IF alpha # K(Alpha90) THEN Sqrt(Add(Square(b2), k)) ELSE 0, b2),
                k, sa2)

\* k and b2, from n2, a and sa*sa
calctav_k(alpha, n2, a, sa2) ==
    calctav_b(alpha, n2, a, Div(Neg(Square(Sub(n2, SCALE))), K(4)), sa2,
              Sub(sa2, Div(Add(n2, SCALE), K(2))))

\* n2, a and sa
calctav_elem(alpha, nr) ==
    calctav_k(alpha, Square(nr), Div(Square(Add(nr, SCALE)), K(2)),
              Square(Sin(Deg2Rad(alpha))))

calctav(alpha, nr) == [i \in DOMAIN nr |-> calctav_elem(alpha, nr[i])]

(***************************************************************************)
(* refl_trans_one_layer: reflectance and transmittance of one layer (Allen *)
(* et al. 1969), for one element of nr and tau.                            *)
(***************************************************************************)
\* The top and the bottom surface side, from talf, t12 and t21
one_layer_sides(tau, talf, t12, t21) ==
    LET ralf  == Sub(SCALE, talf)
        r12   == Sub(SCALE, t12)
        r21   == Sub(SCALE, t21)
        denom == Sub(SCALE, Mul(Mul(Square(r21), tau), tau))
        Ta    == Div(Mul(Mul(talf, tau), t21), denom)
        Ra    == Add(ralf, Mul(Mul(r21, tau), Ta))
        t     == Div(Mul(Mul(t12, tau), t21), denom)
        r     == Add(r12, Mul(Mul(r21, tau), t))
    IN  [r |-> r, t |-> t, Ra |-> Ra, Ta |-> Ta, denom |-> denom]

\* t21 = t12/(nr*nr)
one_layer_t21(nr, tau, talf, t12) ==
    one_layer_sides(tau, talf, t12, Div(t12, Square(nr)))

\* talf = calctav (alpha,nr) and t12 = calctav (90,nr)
one_layer_elem(alpha, nr, tau) ==
    one_layer_t21(nr, tau, calctav_elem(alpha, nr), calctav_elem(K(Alpha90), nr))

\* The five arrays of the elements e
one_layer_arrays(e) ==
    [r     |-> [i \in DOMAIN e |-> e[i].r],
     t     |-> [i \in DOMAIN e |-> e[i].t],
     Ra    |-> [i \in DOMAIN e |-> e[i].Ra],
     Ta    |-> [i \in DOMAIN e |-> e[i].Ta],
     denom |-> [i \in DOMAIN e |-> e[i].denom]]

refl_trans_one_layer(alpha, nr, tau) ==
    one_layer_arrays([i \in DOMAIN nr |-> one_layer_elem(alpha, nr[i], tau[i])])

(***************************************************************************)
(* References, tables and the arguments of a call                          *)
(***************************************************************************)
\* Python's None: the default of every override parameter
None == "None"

\* The seven per-wavelength parameters of prospectdcore, in its order
Params == {"nr", "kab", "kcar", "kbrown", "kw", "km", "kant"}

\* The module-level arrays loaded from prospect5_absc.txt (six columns)
Table5 == [nr |-> "nr_5", kab |-> "kab_5", kcar |-> "kcar_5",
           kbrown |-> "kbrown_5", kw |-> "kw_5", km |-> "km_5"]

\* The module-level arrays loaded from prospectd_absc.txt (the first column,
\* the wavelength, is discarded)
TableD == [nr |-> "nr_d", kab |-> "kab_d", kcar |-> "kcar_d", kant |-> "kant_d",
           kbrown |-> "kbrown_d", kw |-> "kw_d", km |-> "km_d"]

TableRefs == {Table5[p] : p \in DOMAIN Table5} \cup {TableD[p] : p \in DOMAIN TableD}

\* The arrays a caller passes as overrides are the caller's objects
ArgRef == [nr |-> "arg_nr", kab |-> "arg_kab", kcar |-> "arg_kcar",
           kbrown |-> "arg_kbrown", kw |-> "arg_kw", km |-> "arg_km",
           kant |-> "arg_kant"]

ArgRefs == {ArgRef[p] : p \in Params}

\* The arrays a call creates and writes in place
ZerosRef == "zeros"
TauRef == "tau"
RsubRef == "Rsub"
TsubRef == "Tsub"

ShapeError == "Leaf spectra don't have the right shape!"
VersionError == "prospect_version can only be 5 or D!"
\* numpy's error for an elementwise operation on arrays of different lengths
BroadcastError == "operands could not be broadcast together"

\* str.upper, a string being the sequence of its characters
UpperChar(c) == CASE c = "d" -> "D" [] c = "x" -> "X" [] OTHER -> c

Upper(s) == [i \in DOMAIN s |-> UpperChar(s[i])]

VARIABLES
    heap,   \* reference -> array: the tables, the caller's arrays, the call's own
    args,   \* the arguments of the call of run_prospect in progress
    pc,     \* where the call is
    frame,  \* the arguments run_prospect passed to prospectdcore
    loc,    \* prospectdcore's local arrays that are never written in place
    ret,    \* the triple the call returned
    err     \* the message of the ValueError the call raised

vars == <<heap, args, pc, frame, loc, ret, err>>

NoArgs == [n |-> 0, cab |-> 0, car |-> 0, cbrown |-> 0, cw |-> 0, cm |-> 0,
           ant |-> 0, prospect_version |-> <<>>,
           nr |-> None, kab |-> None, kcar |-> None, kbrown |-> None,
           kw |-> None, km |-> None, kant |-> None, alpha |-> 0]

NoFrame == [N |-> 0, cab |-> 0, car |-> 0, cbrown |-> 0, cw |-> 0, cm |-> 0,
            ant |-> 0,
            nr |-> None, kab |-> None, kcar |-> None, kbrown |-> None,
            kw |-> None, km |-> None, kant |-> None, alpha |-> 0]

NoLoc == [lambdas |-> <<>>, kall |-> <<>>, r |-> <<>>, t |-> <<>>,
          Ra |-> <<>>, Ta |-> <<>>]

NoRet == [wv |-> <<>>, refl |-> <<>>, trans |-> <<>>]

(***************************************************************************)
(* prospectdcore, stage by stage                                           *)
(***************************************************************************)
LambdaFirst == 400

\* np.arange(400, 2501), scaled to GridLen points
lambdas == Arange(LambdaFirst, LambdaFirst + GridLen)

n_lambdas == Len(lambdas)

\* Variant of the shape check that leaves nr out
ShapeOKWithoutNr(h, f) ==
    \A p \in Params \ {"nr"} : Len(h[f[p]]) = n_lambdas

\* Variant of prospectdcore without the shape check
ShapeUnchecked(h, f) == TRUE

\* all(n_elems == n_lambdas for n_elems in n_elems_list)
ShapeOK(h, f) == \A p \in Params : Len(h[f[p]]) = n_lambdas

\* numpy can combine the seven arrays elementwise
Broadcastable(h, f) == \A p, q \in Params : Len(h[f[p]]) = Len(h[f[q]])

kall_elem(f, kab, kcar, kant, kbrown, kw, km) ==
    Div(Add(Add(Add(Add(Add(Mul(f.cab, kab), Mul(f.car, kcar)),
                            Mul(f.ant, kant)),
                        Mul(f.cbrown, kbrown)),
                    Mul(f.cw, kw)),
                Mul(f.cm, km)),
        f.N)

Kall(h, f) ==
    [i \in DOMAIN h[f.kab] |->
        kall_elem(f, h[f.kab][i], h[f.kcar][i], h[f.kant][i],
                  h[f.kbrown][i], h[f.kw][i], h[f.km][i])]

\* j = kall > 0
MaskPositive(kall) == [i \in DOMAIN kall |-> kall[i] # NaN /\ kall[i] > 0]

\* t1 = (1-kall)*np.exp(-kall)
T1(kall) == [i \in DOMAIN kall |-> Mul(Sub(SCALE, kall[i]), Exp(Neg(kall[i])))]

\* t2 = kall**2*(-expi(-kall))
T2(kall) ==
    [i \in DOMAIN kall |-> Mul(Mul(kall[i], kall[i]), Neg(Expi(Neg(kall[i]))))]

\* t1[j] + t2[j], kept at the positions of the mask
T1plusT2(kall) ==
    LET t1 == T1(kall)
        t2 == T2(kall)
    IN  [i \in DOMAIN kall |-> Add(t1[i], t2[i])]

\* denom, Rsub and Tsub, from a and b^(N-1)
stokes_sub(a, bNm1) ==
    LET bN2   == Square(bNm1)
        a2    == Square(a)
        denom == Sub(Mul(a2, bN2), SCALE)
    IN  [Rsub |-> Div(Mul(a, Sub(bN2, SCALE)), denom),
         Tsub |-> Div(Mul(bNm1, Sub(a2, SCALE)), denom)]

\* Variant of the Stokes system that raises b to N instead of N-1
stokes_ab_powerN(r, t, N, D, rq, tq) ==
    stokes_sub(Div(Add(Sub(Add(SCALE, rq), tq), D), Mul(K(2), r)),
               Power(Div(Add(Add(Sub(SCALE, rq), tq), D), Mul(K(2), t)), N))

\* a, b and bNm1 = np.power(b, N-1), from D, rq and tq
stokes_ab(r, t, N, D, rq, tq) ==
    stokes_sub(Div(Add(Sub(Add(SCALE, rq), tq), D), Mul(K(2), r)),
               Power(Div(Add(Add(Sub(SCALE, rq), tq), D), Mul(K(2), t)),
                     Sub(N, SCALE)))

\* The Stokes equations for the next N-1 layers, for one element
stokes_elem(r, t, N) ==
    stokes_ab(r, t, N,
              Sqrt(Mul(Mul(Mul(Add(Add(SCALE, r), t), Sub(Add(SCALE, r), t)),
                           Add(Sub(SCALE, r), t)),
                       Sub(Sub(SCALE, r), t))),
              Square(r), Square(t))

StokesRsub(r, t, N) == [i \in DOMAIN r |-> stokes_elem(r[i], t[i], N).Rsub]

StokesTsub(r, t, N) == [i \in DOMAIN r |-> stokes_elem(r[i], t[i], N).Tsub]

\* j = r+t >= 1.
MaskZeroAbsorption(r, t) ==
    [i \in DOMAIN r |-> Add(r[i], t[i]) # NaN /\ Add(r[i], t[i]) >= SCALE]

\* t[j]/(t[j]+(1-t[j])*(N-1))
ZeroAbsorptionTsub(t, N) ==
    [i \in DOMAIN t |->
        Div(t[i], Add(t[i], Mul(Sub(SCALE, t[i]), Sub(N, SCALE))))]

\* 1-Tsub[j]
OneMinus(Tsub) == [i \in DOMAIN Tsub |-> Sub(SCALE, Tsub[i])]

\* tran = Ta*Tsub/denom with denom = 1-Rsub*r
Tran(Ta, Tsub, Rsub, r) ==
    [i \in DOMAIN Ta |->
        Div(Mul(Ta[i], Tsub[i]), Sub(SCALE, Mul(Rsub[i], r[i])))]

\* refl = Ra+Ta*Rsub*t/denom
Refl(Ra, Ta, Rsub, t, r) ==
    [i \in DOMAIN Ra |->
        Add(Ra[i], Div(Mul(Mul(Ta[i], Rsub[i]), t[i]),
                       Sub(SCALE, Mul(Rsub[i], r[i]))))]

\* The object a write to ref creates or changes, everything else as it was
Store(h, ref, a) == [x \in DOMAIN h \cup {ref} |-> IF x = ref THEN a ELSE h[x]]

\* Variant that builds tau in the buffer of kw instead of a new array
TauTargetInPlace(f) == f.kw

\* tau = np.ones_like(t1) binds tau to a new array
TauTarget(f) == TauRef

\* Rsub and Tsub are the new arrays the Stokes expressions produce
RsubTarget(f) == RsubRef

TsubTarget(f) == TsubRef

\* kall and tau[j] = t1[j] + t2[j] on the array of ones
TauArray(kall) == MaskedAssign(OnesLike(T1(kall)), MaskPositive(kall), T1plusT2(kall))

\* Tsub after Tsub[j] = t[j]/(t[j]+(1-t[j])*(N-1))
TsubArray(r, t, N) ==
    MaskedAssign(StokesTsub(r, t, N), MaskZeroAbsorption(r, t),
                 ZeroAbsorptionTsub(t, N))

\* Rsub after Rsub[j] = 1-Tsub[j], which reads the Tsub just written
RsubArray(r, t, N, Tsub) ==
    MaskedAssign(StokesRsub(r, t, N), MaskZeroAbsorption(r, t), OneMinus(Tsub))

\* refl and tran, and the triple prospectdcore returns
core_leaf(one, Tsub, Rsub) ==
    [err |-> "",
     ret |-> [wv    |-> lambdas,
              refl  |-> Refl(one.Ra, one.Ta, Rsub, one.t, one.r),
              trans |-> Tran(one.Ta, Tsub, Rsub, one.r)]]

core_rsub(f, one, Tsub) == core_leaf(one, Tsub, RsubArray(one.r, one.t, f.N, Tsub))

core_tsub(f, one) == core_rsub(f, one, TsubArray(one.r, one.t, f.N))

core_layer(h, f, tau) == core_tsub(f, refl_trans_one_layer(f.alpha, h[f.nr], tau))

\* Tsub and Rsub as the Stokes step leaves them
StoreSub(h, f, Tsub, l) ==
    Store(Store(h, TsubTarget(f), Tsub),
          RsubTarget(f), RsubArray(l.r, l.t, f.N, Tsub))

\* prospectdcore as a function of the heap and its arguments
prospectdcore(h, f) ==
    IF ~ShapeOK(h, f) THEN [err |-> ShapeError, ret |-> NoRet]
    ELSE core_layer(h, f, TauArray(Kall(h, f)))

(***************************************************************************)
(* run_prospect                                                            *)
(***************************************************************************)
\* prospect_version == "5"
IsVersion5(a) == a.prospect_version = <<"5">>

\* Variant of the version test without .upper()
IsVersionDExact(a) == a.prospect_version = <<"D">>

\* prospect_version.upper() == "D"
IsVersionD(a) == Upper(a.prospect_version) = <<"D">>

\* Variant of the PROSPECT-5 path that passes ant and kant on like the D path
Frame5PassesAnt(a) ==
    [N |-> a.n, cab |-> a.cab, car |-> a.car, cbrown |-> a.cbrown,
     cw |-> a.cw, cm |-> a.cm, ant |-> a.ant,
     nr     |-> IF a.nr = None THEN Table5.nr ELSE a.nr,
     kab    |-> IF a.kab = None THEN Table5.kab ELSE a.kab,
     kcar   |-> IF a.kcar = None THEN Table5.kcar ELSE a.kcar,
     kbrown |-> IF a.kbrown = None THEN Table5.kbrown ELSE a.kbrown,
     kw     |-> IF a.kw = None THEN Table5.kw ELSE a.kw,
     km     |-> IF a.km = None THEN Table5.km ELSE a.km,
     kant   |-> IF a.kant = None THEN TableD.kant ELSE a.kant,
     alpha  |-> a.alpha]

\* The arguments of the PROSPECT-5 call of prospectdcore
Frame5(a) ==
    [N |-> a.n, cab |-> a.cab, car |-> a.car, cbrown |-> a.cbrown,
     cw |-> a.cw, cm |-> a.cm, ant |-> 0,
     nr     |-> IF a.nr = None THEN Table5.nr ELSE a.nr,
     kab    |-> IF a.kab = None THEN Table5.kab ELSE a.kab,
     kcar   |-> IF a.kcar = None THEN Table5.kcar ELSE a.kcar,
     kbrown |-> IF a.kbrown = None THEN Table5.kbrown ELSE a.kbrown,
     kw     |-> IF a.kw = None THEN Table5.kw ELSE a.kw,
     km     |-> IF a.km = None THEN Table5.km ELSE a.km,
     kant   |-> ZerosRef,
     alpha  |-> a.alpha]

\* Variant of the D path that falls back to the PROSPECT-5 column for kab
FrameDKab5(a) ==
    [N |-> a.n, cab |-> a.cab, car |-> a.car, cbrown |-> a.cbrown,
     cw |-> a.cw, cm |-> a.cm, ant |-> a.ant,
     nr     |-> IF a.nr = None THEN TableD.nr ELSE a.nr,
     kab    |-> IF a.kab = None THEN Table5.kab ELSE a.kab,
     kcar   |-> IF a.kcar = None THEN TableD.kcar ELSE a.kcar,
     kbrown |-> IF a.kbrown = None THEN TableD.kbrown ELSE a.kbrown,
     kw     |-> IF a.kw = None THEN TableD.kw ELSE a.kw,
     km     |-> IF a.km = None THEN TableD.km ELSE a.km,
     kant   |-> IF a.kant = None THEN TableD.kant ELSE a.kant,
     alpha  |-> a.alpha]

\* The arguments of the PROSPECT-D call of prospectdcore
FrameD(a) ==
    [N |-> a.n, cab |-> a.cab, car |-> a.car, cbrown |-> a.cbrown,
     cw |-> a.cw, cm |-> a.cm, ant |-> a.ant,
     nr     |-> IF a.nr = None THEN TableD.nr ELSE a.nr,
     kab    |-> IF a.kab = None THEN TableD.kab ELSE a.kab,
     kcar   |-> IF a.kcar = None THEN TableD.kcar ELSE a.kcar,
     kbrown |-> IF a.kbrown = None THEN TableD.kbrown ELSE a.kbrown,
     kw     |-> IF a.kw = None THEN TableD.kw ELSE a.kw,
     km     |-> IF a.km = None THEN TableD.km ELSE a.km,
     kant   |-> IF a.kant = None THEN TableD.kant ELSE a.kant,
     alpha  |-> a.alpha]

\* np.zeros_like(km_5): the kant of the PROSPECT-5 call
WithZeros(h) == Store(h, ZerosRef, ZerosLike(h[Table5.km]))

\* run_prospect as a function of the heap and its arguments
run_prospect(h, a) ==
    IF IsVersion5(a) THEN prospectdcore(WithZeros(h), Frame5(a))
    ELSE IF IsVersionD(a) THEN prospectdcore(h, FrameD(a))
    ELSE [err |-> VersionError, ret |-> NoRet]

(***************************************************************************)
(* The steps of a call                                                     *)
(***************************************************************************)
\* if prospect_version == "5": the call of prospectdcore is entered
RunProspect5 ==
    /\ pc = "run_prospect"
    /\ IsVersion5(args)
    /\ heap' = WithZeros(heap)
    /\ frame' = Frame5(args)
    /\ pc' = "core_check"
    /\ UNCHANGED <<args, loc, ret, err>>

\* elif prospect_version.upper() == "D": the call of prospectdcore is entered
RunProspectD ==
    /\ pc = "run_prospect"
    /\ ~IsVersion5(args)
    /\ IsVersionD(args)
    /\ frame' = FrameD(args)
    /\ pc' = "core_check"
    /\ UNCHANGED <<heap, args, loc, ret, err>>

\* else: raise ValueError
RunProspectInvalid ==
    /\ pc = "run_prospect"
    /\ ~IsVersion5(args)
    /\ ~IsVersionD(args)
    /\ err' = VersionError
    /\ pc' = "raised"
    /\ UNCHANGED <<heap, args, frame, loc, ret>>

\* lambdas, n_lambdas and the check of the seven lengths
CoreCheck ==
    /\ pc = "core_check"
    /\ loc' = [loc EXCEPT !.lambdas = lambdas]
    /\ IF ShapeOK(heap, frame)
       THEN pc' = "core_tau" /\ err' = err
       ELSE pc' = "raised" /\ err' = ShapeError
    /\ UNCHANGED <<heap, args, frame, ret>>

\* kall, j, t1, t2, tau
CoreTau ==
    /\ pc = "core_tau"
    /\ IF Broadcastable(heap, frame)
       THEN LET kall == Kall(heap, frame)
            IN  /\ loc' = [loc EXCEPT !.kall = kall]
                /\ heap' = Store(heap, TauTarget(frame), TauArray(kall))
                /\ pc' = "core_layer"
                /\ err' = err
       ELSE /\ pc' = "raised"
            /\ err' = BroadcastError
            /\ UNCHANGED <<heap, loc>>
    /\ UNCHANGED <<args, frame, ret>>

\* r, t, Ra, Ta, denom = refl_trans_one_layer (alpha, nr, tau)
CoreLayer ==
    /\ pc = "core_layer"
    /\ LET one == refl_trans_one_layer(frame.alpha, heap[frame.nr],
                                       heap[TauTarget(frame)])
       IN  loc' = [loc EXCEPT !.r = one.r, !.t = one.t,
                              !.Ra = one.Ra, !.Ta = one.Ta]
    /\ pc' = "core_stokes"
    /\ UNCHANGED <<heap, args, frame, ret, err>>

\* D ... Tsub, then the case of zero absorption written into Tsub and Rsub
CoreStokes ==
    /\ pc = "core_stokes"
    /\ heap' = StoreSub(heap, frame, TsubArray(loc.r, loc.t, frame.N), loc)
    /\ pc' = "core_combine"
    /\ UNCHANGED <<args, frame, loc, ret, err>>

\* denom, tran, refl; prospectdcore returns and run_prospect returns its triple
CoreReturn ==
    /\ pc = "core_combine"
    /\ LET Rsub == heap[RsubTarget(frame)]
           Tsub == heap[TsubTarget(frame)]
       IN  ret' = [wv    |-> loc.lambdas,
                   refl  |-> Refl(loc.Ra, loc.Ta, Rsub, loc.t, loc.r),
                   trans |-> Tran(loc.Ta, Tsub, Rsub, loc.r)]
    /\ pc' = "returned"
    /\ UNCHANGED <<heap, args, frame, loc, err>>

\* The caller is done with the call: only the module's tables stay
Finish ==
    /\ pc \in {"returned", "raised"}
    /\ heap' = [x \in TableRefs |-> heap[x]]
    /\ args' = NoArgs
    /\ frame' = NoFrame
    /\ loc' = NoLoc
    /\ ret' = NoRet
    /\ err' = ""
    /\ pc' = "idle"

\* A caller calls run_prospect with the arguments c.args, c.arrays being the
\* arrays it passes as overrides
Call(c) ==
    /\ pc = "idle"
    /\ heap' = [x \in TableRefs \cup DOMAIN c.arrays |->
                   IF x \in TableRefs THEN heap[x] ELSE c.arrays[x]]
    /\ args' = c.args
    /\ pc' = "run_prospect"
    /\ UNCHANGED <<frame, loc, ret, err>>

(***************************************************************************)
(* The tables as loaded and the calls a caller makes                       *)
(***************************************************************************)
\* The fixed-point number n/d
Frac(n, d) == (n * SCALE) \div d

\* An array of n elements: v1 at the odd positions, v2 at the even ones
Pattern(n, v1, v2) == [i \in 1..n |-> IF i % 2 = 1 THEN v1 ELSE v2]

\* The contents of the two data files are not part of the program: the tables
\* are one of these.  In TablesMixed every coefficient of a table is zero at
\* some wavelengths, in TablesFlat none is.
TablesMixed ==
    [nr_5     |-> Pattern(GridLen, Frac(14, 10), Frac(13, 10)),
     kab_5    |-> Pattern(GridLen, 0, Frac(5, 1000)),
     kcar_5   |-> Pattern(GridLen, 0, Frac(10, 1000)),
     kbrown_5 |-> Pattern(GridLen, 0, Frac(1, 10)),
     kw_5     |-> Pattern(GridLen, 0, K(10)),
     km_5     |-> Pattern(GridLen, 0, K(5)),
     nr_d     |-> Pattern(GridLen, Frac(13, 10), Frac(14, 10)),
     kab_d    |-> Pattern(GridLen, Frac(6, 1000), 0),
     kcar_d   |-> Pattern(GridLen, Frac(12, 1000), 0),
     kant_d   |-> Pattern(GridLen, Frac(20, 1000), Frac(10, 1000)),
     kbrown_d |-> Pattern(GridLen, Frac(2, 10), 0),
     kw_d     |-> Pattern(GridLen, K(8), 0),
     km_d     |-> Pattern(GridLen, K(4), 0)]

TablesFlat ==
    [nr_5     |-> Pattern(GridLen, Frac(145, 100), Frac(145, 100)),
     kab_5    |-> Pattern(GridLen, Frac(3, 1000), Frac(4, 1000)),
     kcar_5   |-> Pattern(GridLen, Frac(7, 1000), Frac(7, 1000)),
     kbrown_5 |-> Pattern(GridLen, Frac(3, 10), Frac(1, 10)),
     kw_5     |-> Pattern(GridLen, K(1), K(20)),
     km_5     |-> Pattern(GridLen, K(6), K(6)),
     nr_d     |-> Pattern(GridLen, Frac(15, 10), Frac(135, 100)),
     kab_d    |-> Pattern(GridLen, Frac(4, 1000), Frac(3, 1000)),
     kcar_d   |-> Pattern(GridLen, Frac(9, 1000), Frac(8, 1000)),
     kant_d   |-> Pattern(GridLen, Frac(15, 1000), Frac(5, 1000)),
     kbrown_d |-> Pattern(GridLen, Frac(1, 10), Frac(3, 10)),
     kw_d     |-> Pattern(GridLen, K(2), K(15)),
     km_d     |-> Pattern(GridLen, K(7), K(7))]

TableSets == {TablesMixed, TablesFlat}

\* The arrays a caller passes: of the grid's length, one short, one long
OverrideKinds == {"good", "short", "long"}

OverrideLen(kind) ==
    CASE kind = "good"  -> GridLen
      [] kind = "short" -> GridLen - 1
      [] kind = "long"  -> GridLen + 1

OverrideArray(p, kind) ==
    IF p = "nr" THEN Pattern(OverrideLen(kind), Frac(15, 10), Frac(14, 10))
    ELSE Pattern(OverrideLen(kind), Frac(2, 1000), 0)

\* How many overrides one call of the specification Spec supplies at most
MaxSupplied == 1

\* The choices of overrides: a kind for each parameter of a set of at most max
OverrideChoices(max) ==
    UNION {[S -> OverrideKinds] :
              S \in {T \in SUBSET Params : Cardinality(T) <= max}}

\* The leaf contents of a call
ContentsZero == [cab |-> 0, car |-> 0, cbrown |-> 0, cw |-> 0, cm |-> 0]

ContentsTypical ==
    [cab |-> K(40), car |-> K(8), cbrown |-> 0,
     cw |-> Frac(1, 100), cm |-> Frac(9, 1000)]

ContentsBrown ==
    [cab |-> K(10), car |-> 0, cbrown |-> Frac(5, 10), cw |-> 0, cm |-> 0]

\* The default of alpha
AlphaDefault == 40

\* A call: its arguments, and the arrays behind its override references
CallOf(version, n, contents, ant, alpha, ov) ==
    [args |->
        [n |-> n, cab |-> contents.cab, car |-> contents.car,
         cbrown |-> contents.cbrown, cw |-> contents.cw, cm |-> contents.cm,
         ant |-> ant, prospect_version |-> version,
         nr     |-> IF "nr" \in DOMAIN ov THEN ArgRef.nr ELSE None,
         kab    |-> IF "kab" \in DOMAIN ov THEN ArgRef.kab ELSE None,
         kcar   |-> IF "kcar" \in DOMAIN ov THEN ArgRef.kcar ELSE None,
         kbrown |-> IF "kbrown" \in DOMAIN ov THEN ArgRef.kbrown ELSE None,
         kw     |-> IF "kw" \in DOMAIN ov THEN ArgRef.kw ELSE None,
         km     |-> IF "km" \in DOMAIN ov THEN ArgRef.km ELSE None,
         kant   |-> IF "kant" \in DOMAIN ov THEN ArgRef.kant ELSE None,
         alpha  |-> alpha],
     arrays |->
        [x \in {ArgRef[p] : p \in DOMAIN ov} |->
            LET p == CHOOSE q \in DOMAIN ov : ArgRef[q] = x
            IN  OverrideArray(p, ov[p])]]

\* The characters of the version strings, and the strings of at most two
Alphabet == {"5", "D", "d", " ", "x"}

VersionStrings ==
    {<<>>} \cup {<<c>> : c \in Alphabet} \cup {<<c, d>> : c, d \in Alphabet}

\* Spec: every version string, with any choice of at most MaxSupplied overrides
Calls ==
    {CallOf(v, Frac(15, 10), ContentsTypical, K(2), K(AlphaDefault), ov) :
        v \in VersionStrings, ov \in OverrideChoices(MaxSupplied)}

\* SpecOptics: the leaf parameters vary
CallsOptics ==
    {CallOf(v, n, c, ant, K(alpha), ov) :
        v \in {<<"5">>, <<"D">>, <<"d">>, <<"x">>},
        n \in {K(1), Frac(15, 10), K(2)},
        c \in {ContentsZero, ContentsTypical, ContentsBrown},
        ant \in {0, K(2)},
        alpha \in {AlphaDefault, Alpha90},
        ov \in {<<>>, [nr |-> "good"], [kant |-> "good"], [kab |-> "short"]}}

Init ==
    /\ heap \in TableSets
    /\ args = NoArgs
    /\ pc = "idle"
    /\ frame = NoFrame
    /\ loc = NoLoc
    /\ ret = NoRet
    /\ err = ""

Step ==
    \/ RunProspect5
    \/ RunProspectD
    \/ RunProspectInvalid
    \/ CoreCheck
    \/ CoreTau
    \/ CoreLayer
    \/ CoreStokes
    \/ CoreReturn
    \/ Finish

Next == (\E c \in Calls : Call(c)) \/ Step

NextOptics == (\E c \in CallsOptics : Call(c)) \/ Step

Spec == Init /\ [][Next]_vars

SpecOptics == Init /\ [][NextOptics]_vars

(***************************************************************************)
(* Properties                                                              *)
(***************************************************************************)
\* The call is inside prospectdcore, or has returned from it
InCore == pc \in {"core_check", "core_tau", "core_layer", "core_stokes",
                  "core_combine", "returned"}

\* The check of the lengths has let the call through
PastCheck == pc \in {"core_tau", "core_layer", "core_stokes", "core_combine",
                     "returned"}

Finished == pc \in {"returned", "raised"}

\* How the call ended
Outcome == [err |-> err, ret |-> ret]

AcceptedVersions == {<<"5">>, <<"D">>, <<"d">>}

\* C1: run_prospect accepts exactly the version strings "5", "D" and "d": a
\* call enters prospectdcore only with one of them, a call with any other
\* string ends with the error "prospect_version can only be 5 or D!" and no
\* result, no call with one of the three ends with that error, and a call with
\* "d" ends as the call with "D" and the same other arguments does (and the
\* other way round).
C1_VersionContract ==
    /\ InCore => args.prospect_version \in AcceptedVersions
    /\ (pc \notin {"idle", "run_prospect"}
        /\ args.prospect_version \notin AcceptedVersions)
          => pc = "raised" /\ err = VersionError /\ ret = NoRet
    /\ err = VersionError => args.prospect_version \notin AcceptedVersions
    /\ (Finished /\ args.prospect_version = <<"d">>)
          => Outcome = run_prospect(heap, [args EXCEPT !.prospect_version = <<"D">>])
    /\ (Finished /\ args.prospect_version = <<"D">>)
          => Outcome = run_prospect(heap, [args EXCEPT !.prospect_version = <<"d">>])

\* A call with "d" has returned a result
C1_Witness ==
    /\ pc = "returned"
    /\ args.prospect_version = <<"d">>
    /\ Len(ret.refl) = GridLen

\* The anthocyanin contents the call is compared with
AntValues == {0, K(2), K(7)}

\* C2: with prospect_version "5" the call ends the same whatever ant is: it
\* ends as the call with any other ant and the same other arguments does, and
\* the core is passed ant = 0 and an all-zero kant.
C2_Version5IgnoresAnt ==
    /\ (InCore /\ IsVersion5(args))
          => /\ frame.ant = 0
             /\ \A i \in DOMAIN heap[frame.kant] : heap[frame.kant][i] = 0
    /\ (Finished /\ IsVersion5(args))
          => \A ant \in AntValues :
                Outcome = run_prospect(heap, [args EXCEPT !.ant = ant])

\* A PROSPECT-5 call with a nonzero ant has returned a result
C2_Witness ==
    /\ pc = "returned"
    /\ IsVersion5(args)
    /\ args.ant > 0
    /\ Len(ret.refl) = GridLen

\* An override is supplied for p and its length is not the grid's
BadOverride(p) == args[p] # None /\ Len(heap[args[p]]) # GridLen

\* The call has ended with the shape error
ShapeErrorRaised == pc = "raised" /\ err = ShapeError /\ ret = NoRet

\* C3 as claimed: for every accepted version and each of the seven override
\* parameters, a call that supplies an override of a length other than the
\* grid's ends with the shape error.
C3_AnyBadOverrideFails ==
    \A p \in Params :
        (args.prospect_version \in AcceptedVersions /\ BadOverride(p)
         /\ pc \notin {"idle", "run_prospect", "core_check"})
            => ShapeErrorRaised

\* The override parameters the selected path passes on to prospectdcore
PassedParams == IF IsVersion5(args) THEN Params \ {"kant"} ELSE Params

\* C3 amended: for every accepted version and each override parameter that the
\* version's path passes to prospectdcore (all seven for "D" and "d"; nr, kab,
\* kcar, kbrown, kw and km for "5", whose path ignores kant), a call that
\* supplies an override of a length other than the grid's ends with the shape
\* error.
C3_PassedBadOverrideFails ==
    \A p \in PassedParams :
        (args.prospect_version \in AcceptedVersions /\ BadOverride(p)
         /\ pc \notin {"idle", "run_prospect", "core_check"})
            => ShapeErrorRaised

\* A call with an accepted version and a short kab has ended with the shape error
C3_Witness ==
    /\ ShapeErrorRaised
    /\ args.prospect_version \in AcceptedVersions
    /\ BadOverride("kab")

\* No numeric step of prospectdcore has run
NothingComputed ==
    /\ loc.kall = <<>> /\ loc.r = <<>> /\ loc.t = <<>>
    /\ loc.Ra = <<>> /\ loc.Ta = <<>>
    /\ {TauRef, RsubRef, TsubRef} \cap DOMAIN heap = {}
    /\ ret = NoRet

\* C4: the check of the seven lengths is the first step of prospectdcore: when
\* the shape error is raised, kall, tau, the single-layer optics and the
\* Stokes values have not been computed, and every numeric step runs on seven
\* arrays of the grid's length (numpy never has to reject mismatched operands).
C4_CheckBeforeNumerics ==
    /\ err = ShapeError => NothingComputed
    /\ pc = "core_check" => NothingComputed
    /\ PastCheck => \A p \in Params : Len(heap[frame[p]]) = GridLen
    /\ err # BroadcastError

\* A call with a kab override one element short has raised the shape error
C4_Witness ==
    /\ ShapeErrorRaised
    /\ args.kab # None
    /\ Len(heap[args.kab]) = GridLen - 1

\* The static table of the selected version
VersionTable == IF IsVersion5(args) THEN Table5 ELSE TableD

OtherTable == IF IsVersion5(args) THEN TableD ELSE Table5

\* C5 as claimed: for each of the seven parameters and each accepted version,
\* prospectdcore is handed the caller's override when one is supplied, and
\* the column of the selected version's table when it is omitted.
C5_OverrideOrColumn ==
    InCore =>
        \A p \in Params :
            /\ args[p] # None => frame[p] = args[p]
            /\ (args[p] = None /\ p \in DOMAIN VersionTable)
                  => frame[p] = VersionTable[p]

\* C5 amended: for each parameter and each accepted version, except kant
\* under "5", prospectdcore is handed the caller's override when one is
\* supplied and the column of the selected version's table when it is
\* omitted, never a column of the other version's table; under "5" the kant
\* it is handed is a new all-zero array of the length of km_5, whether or
\* not the caller supplies a kant.
C5_PassedOverrideOrColumn ==
    InCore =>
        /\ \A p \in PassedParams :
              /\ args[p] # None => frame[p] = args[p]
              /\ args[p] = None => frame[p] = VersionTable[p]
        /\ \A p \in Params :
              frame[p] \notin {OtherTable[q] : q \in DOMAIN OtherTable}
        /\ IsVersion5(args)
              => /\ frame.kant \notin TableRefs \cup ArgRefs
                 /\ heap[frame.kant] = [i \in 1..Len(heap[Table5.km]) |-> 0]

\* A PROSPECT-5 call is in prospectdcore with the caller's nr and the table's kab
C5_Witness ==
    /\ InCore
    /\ IsVersion5(args)
    /\ args.nr # None /\ frame.nr = args.nr
    /\ args.kab = None /\ frame.kab = Table5.kab

\* The arrays a call creates itself
OwnRefs == {ZerosRef, TauRef, RsubRef, TsubRef}

\* C6: no step of any call changes a module-level table or an array the
\* caller supplied: the objects a step creates or changes are the call's own
\* (zeros, tau, Rsub, Tsub), and the tables are the same before and after
\* every call.
C6_TablesAndOverridesKept ==
    [][/\ \A x \in TableRefs : x \in DOMAIN heap' /\ heap'[x] = heap[x]
       /\ (pc # "idle" /\ pc' # "idle")
             => /\ \A x \in ArgRefs \cap DOMAIN heap :
                      x \in DOMAIN heap' /\ heap'[x] = heap[x]
                /\ \A x \in DOMAIN heap' :
                      (x \notin DOMAIN heap \/ heap'[x] # heap[x])
                         => x \in OwnRefs
       /\ pc' = "idle" => DOMAIN heap' = TableRefs]_vars

\* A call with a kw override has written tau, Tsub and Rsub in place
C6_Witness ==
    /\ pc = "core_combine"
    /\ args.kw # None
    /\ \E i \in DOMAIN heap[TauRef] : heap[TauRef][i] # SCALE
    /\ \E i \in DOMAIN loc.r : MaskZeroAbsorption(loc.r, loc.t)[i]

\* C7: every call that returns returns the wavelengths 400, 401, ... of the
\* grid and three sequences of the grid's length.
C7_ReturnsGrid ==
    pc = "returned" =>
        /\ ret.wv = [i \in 1..GridLen |-> LambdaFirst + i - 1]
        /\ Len(ret.wv) = GridLen
        /\ Len(ret.refl) = GridLen
        /\ Len(ret.trans) = GridLen

\* A call with an override has returned
C7_Witness ==
    /\ pc = "returned"
    /\ \E p \in Params : args[p] # None
    /\ Len(ret.trans) = GridLen

\* C8: with N = 1 the inner stack is Rsub = 0 and Tsub = 1 at every
\* wavelength, in the general branch and in the zero-absorption branch, and
\* the call returns refl = Ra and tran = Ta.
C8_SingleLayer ==
    /\ (pc \in {"core_combine", "returned"} /\ frame.N = K(1))
          => \A i \in 1..GridLen :
                heap[RsubRef][i] = 0 /\ heap[TsubRef][i] = SCALE
    /\ (pc = "returned" /\ frame.N = K(1))
          => ret.refl = loc.Ra /\ ret.trans = loc.Ta

\* A call with N = 1 has returned, having taken both branches
C8_Witness ==
    /\ pc = "returned"
    /\ frame.N = K(1)
    /\ \E i, j \in 1..GridLen :
          /\ MaskZeroAbsorption(loc.r, loc.t)[i]
          /\ ~MaskZeroAbsorption(loc.r, loc.t)[j]
          /\ loc.Ra[j] > 0 /\ loc.Ta[j] > 0

\* The exponential-integral form of tau for one kall
TauFormula(k) ==
    Add(Mul(Sub(SCALE, k), Exp(Neg(k))), Mul(Mul(k, k), Neg(Expi(Neg(k)))))

\* C10: tau, Tsub and Rsub are selected for each wavelength from that
\* wavelength's values only: tau[i] is the exponential-integral form when
\* kall[i] > 0 and 1 when kall[i] = 0; Tsub[i] = t[i]/(t[i]+(1-t[i])*(N-1))
\* and Rsub[i] = 1-Tsub[i] when r[i]+t[i] >= 1, the Stokes values otherwise.
C10_BranchPerWavelength ==
    /\ pc \in {"core_layer", "core_stokes", "core_combine", "returned"}
          => \A i \in 1..GridLen :
                /\ loc.kall[i] > 0 => heap[TauRef][i] = TauFormula(loc.kall[i])
                /\ loc.kall[i] = 0 => heap[TauRef][i] = SCALE
    /\ pc \in {"core_combine", "returned"}
          => \A i \in 1..GridLen :
                LET r == loc.r[i]
                    t == loc.t[i]
                    zero == Div(t, Add(t, Mul(Sub(SCALE, t), Sub(frame.N, SCALE))))
                IN  IF Add(r, t) # NaN /\ Add(r, t) >= SCALE
                    THEN /\ heap[TsubRef][i] = zero
                         /\ heap[RsubRef][i] = Sub(SCALE, zero)
                    ELSE /\ heap[TsubRef][i] = stokes_elem(r, t, frame.N).Tsub
                         /\ heap[RsubRef][i] = stokes_elem(r, t, frame.N).Rsub

\* One call has taken both branches of tau and both branches of Tsub
C10_Witness ==
    /\ pc = "returned"
    /\ frame.N > K(1)
    /\ \E i, j \in 1..GridLen : loc.kall[i] > 0 /\ loc.kall[j] = 0
    /\ \E i, j \in 1..GridLen :
          /\ MaskZeroAbsorption(loc.r, loc.t)[i]
          /\ ~MaskZeroAbsorption(loc.r, loc.t)[j]

=============================================================================
